---- MODULE Spec2Model ----
(***************************************************************************)
(* Request handlers of the product and Q&A admin controllers               *)
(* (src/controller/product_controller.py, src/controller/qna_controller.py)*)
(* One request is handled at a time: it is received, a database session is *)
(* acquired, the handler body runs step by step, its except clauses pick   *)
(* the response and its finally block runs last.  Every call a handler     *)
(* makes on a collaborator (session, product_service, qna_service, the     *)
(* image store) is appended to the log `calls`.                            *)
(* Form values are Python strings: sequences of one-character strings.     *)
(***************************************************************************)
EXTENDS Integers, Sequences, FiniteSets, TLC

(* ------------------------------ bounds -------------------------------- *)
\* highest attachment slot image_<idx> a request of the model may fill
MaxFiles == 2
\* largest row count get_product_count reports in the model
MaxTotal == 95
\* largest filterLimit a list request of the model carries
MaxLimit == 10

(* ------------------------- program constants -------------------------- *)
UnitLimit == 20
MinPrice == 10
DiscountUpper == 99
LastSlot == 5

(* ------------------------- Python str and int ------------------------- *)
Digits == <<"0", "1", "2", "3", "4", "5", "6", "7", "8", "9">>

IsDigit(c) == \E i \in 1..10 : Digits[i] = c

DigitVal(c) == (CHOOSE i \in 1..10 : Digits[i] = c) - 1

\* code point order of the characters the model's strings are made of
Ord(c) ==
    CASE c = "\"" -> 34
      [] c = "'" -> 39
      [] c = "," -> 44
      [] c = "-" -> 45
      [] IsDigit(c) -> 48 + DigitVal(c)
      [] OTHER -> 97

RECURSIVE StrGreater(_, _)
\* a > b on two str values: lexicographic, a proper prefix is smaller
StrGreater(a, b) ==
    IF a = <<>> THEN FALSE
    ELSE IF b = <<>> THEN TRUE
    ELSE IF Ord(Head(a)) # Ord(Head(b)) THEN Ord(Head(a)) > Ord(Head(b))
    ELSE StrGreater(Tail(a), Tail(b))

\* int(s) succeeds: an optional sign followed by at least one digit
IsIntStr(s) ==
    LET body == IF Len(s) > 0 /\ s[1] \in {"-", "+"} THEN Tail(s) ELSE s
    IN  Len(body) > 0 /\ \A i \in 1..Len(body) : IsDigit(body[i])

RECURSIVE DigitsVal(_)
DigitsVal(s) ==
    IF s = <<>> THEN 0
    ELSE 10 * DigitsVal(SubSeq(s, 1, Len(s) - 1)) + DigitVal(s[Len(s)])

\* int(s) for a string IsIntStr accepts
IntOf(s) ==
    IF s[1] = "-" THEN 0 - DigitsVal(Tail(s))
    ELSE IF s[1] = "+" THEN DigitsVal(Tail(s))
    ELSE DigitsVal(s)

\* re.compile('[\"\']').search(s)
HasQuote(s) == \E i \in 1..Len(s) : s[i] \in {"\"", "'"}

RECURSIVE Split(_)
\* s.split(','): the pieces between commas, [''] for the empty string
Split(s) ==
    IF \E i \in 1..Len(s) : s[i] = ","
    THEN LET i == CHOOSE j \in 1..Len(s) :
                      s[j] = "," /\ \A k \in 1..(j - 1) : s[k] # ","
         IN  <<SubSeq(s, 1, i - 1)>> \o Split(SubSeq(s, i + 1, Len(s)))
    ELSE <<s>>

Range(s) == {s[i] : i \in 1..Len(s)}

(* ----------------------------- requests ------------------------------- *)
NameValues == {<<"W">>, <<"W", "'">>, <<"\"", "W">>}

DateEarly == <<"2", "0", "2", "4", "-", "0", "1", "-", "1", "0">>

DateLate == <<"2", "0", "2", "4", "-", "0", "2", "-", "0", "1">>

DatePairs == {<<DateEarly, DateEarly>>, <<DateEarly, DateLate>>, <<DateLate, DateEarly>>}

MinUnitValues == {<<"0">>, <<"2", "0">>, <<"2", "1">>, <<"a", "b", "c">>}

MaxUnitValues == {<<"2", "0">>, <<"2", "1">>}

PriceValues == {<<"9">>, <<"1", "0">>}

DiscountValues == {<<"-", "1">>, <<"0">>, <<"9", "8">>, <<"9", "9">>}

\* the 'images' field of an update: comma-joined URLs of the stored images
ImagesValues == {<<"a">>, <<"a", ",", "b">>}

ValidatedFields ==
    {"name", "discount_start_date", "discount_end_date", "min_unit",
     "max_unit", "price", "discount_rate"}

\* seller_id and stock_number stand for the fields the handlers read but
\* never validate
InsertFields == ValidatedFields \cup {"seller_id", "stock_number"}

UpdateFields == InsertFields \cup {"images", "product_id", "product_code"}

FullInsertForms ==
    {[k \in InsertFields |->
        CASE k = "name" -> n
          [] k = "discount_start_date" -> d[1]
          [] k = "discount_end_date" -> d[2]
          [] k = "min_unit" -> mn
          [] k = "max_unit" -> mx
          [] k = "price" -> p
          [] k = "discount_rate" -> r
          [] OTHER -> <<"1">>] :
        n \in NameValues, d \in DatePairs, mn \in MinUnitValues,
        mx \in MaxUnitValues, p \in PriceValues, r \in DiscountValues}

FullUpdateForms ==
    {[k \in UpdateFields |->
        CASE k \in InsertFields -> f[k]
          [] k = "images" -> im
          [] k = "product_code" -> <<"p">>
          [] OTHER -> <<"1">>] :
        f \in FullInsertForms, im \in ImagesValues}

Without(f, k) == [x \in (DOMAIN f) \ {k} |-> f[x]]

\* a form is complete or lacks one field
InsertForms ==
    FullInsertForms \cup
    {Without(f, k) : f \in FullInsertForms,
                     k \in {"name", "discount_rate", "seller_id", "stock_number"}}

UpdateForms ==
    FullUpdateForms \cup
    {Without(f, k) : f \in FullUpdateForms,
                     k \in {"images", "name", "seller_id", "stock_number"}}

EmptyForm == [k \in {} |-> <<>>]

Has(f, k) == k \in DOMAIN f

(* --------------------- values of handler variables -------------------- *)
\* a local variable that no assignment has reached yet
Unbound == [kind |-> "unbound", urls |-> <<>>]

\* the '' image_urls starts as
EmptyStr == [kind |-> "str", urls |-> <<>>]

None == [kind |-> "None", urls |-> <<>>]

\* the (response, 400) pair upload_image returns for a disallowed file type
Rejection == [kind |-> "rejection", urls |-> <<>>]

UrlList(s) == [kind |-> "urls", urls |-> s]

NoResponse == [status |-> 0, message |-> "NONE"]

Resp(s, m) == [status |-> s, message |-> m]

NoInfo == [fields |-> EmptyForm, images |-> Unbound, new_images |-> Unbound]

(* ------------------ validation (product_controller) ------------------- *)
\* each check of insert_product answers "OK", its rejection code, or the
\* exception raised while reading its fields: KeyError for a missing
\* field, ValueError for a string int() does not accept

\* lines 367-370
CheckName(f) ==
    IF ~Has(f, "name") THEN "KeyError"
    ELSE IF HasQuote(f["name"]) THEN "NAME_CANNOT_CONTAIN_QUOTATION_MARK"
    ELSE "OK"

\* lines 372-374
CheckDates(f) ==
    IF ~Has(f, "discount_start_date") \/ ~Has(f, "discount_end_date")
    THEN "KeyError"
    ELSE IF StrGreater(f["discount_start_date"], f["discount_end_date"])
    THEN "START_DATE_CANNOT_BE_EARLIER_THAN_END_DATE"
    ELSE "OK"

\* lines 376-378: max_unit is read only when min_unit is within the limit
CheckUnits(f) ==
    IF ~Has(f, "min_unit") THEN "KeyError"
    ELSE IF ~IsIntStr(f["min_unit"]) THEN "ValueError"
    ELSE IF IntOf(f["min_unit"]) > UnitLimit THEN "CANNOT_SET_MORE_THAN_20"
    ELSE IF ~Has(f, "max_unit") THEN "KeyError"
    ELSE IF ~IsIntStr(f["max_unit"]) THEN "ValueError"
    ELSE IF IntOf(f["max_unit"]) > UnitLimit THEN "CANNOT_SET_MORE_THAN_20"
    ELSE "OK"

\* CheckPrice with the comparison lost
CheckPriceMutant(f) ==
    IF ~Has(f, "price") THEN "KeyError"
    ELSE IF ~IsIntStr(f["price"]) THEN "ValueError"
    ELSE "OK"

\* lines 380-382
CheckPrice(f) ==
    IF ~Has(f, "price") THEN "KeyError"
    ELSE IF ~IsIntStr(f["price"]) THEN "ValueError"
    ELSE IF IntOf(f["price"]) < MinPrice THEN "CANNOT_SET_LESS_THAN_10"
    ELSE "OK"

\* lines 384-386: not in range(0, 99)
CheckDiscount(f) ==
    IF ~Has(f, "discount_rate") THEN "KeyError"
    ELSE IF ~IsIntStr(f["discount_rate"]) THEN "ValueError"
    ELSE IF IntOf(f["discount_rate"]) \notin 0..(DiscountUpper - 1)
    THEN "DISCOUNT_RANGE_CAN_BE_SET_FROM_0_TO_99"
    ELSE "OK"

\* Validate with the price check moved in front of the unit check
ValidateMutant(f) ==
    IF CheckName(f) # "OK" THEN CheckName(f)
    ELSE IF CheckDates(f) # "OK" THEN CheckDates(f)
    ELSE IF CheckPrice(f) # "OK" THEN CheckPrice(f)
    ELSE IF CheckUnits(f) # "OK" THEN CheckUnits(f)
    ELSE CheckDiscount(f)

\* lines 367-386: the checks in the order the code runs them, the first
\* that does not pass decides
Validate(f) ==
    IF CheckName(f) # "OK" THEN CheckName(f)
    ELSE IF CheckDates(f) # "OK" THEN CheckDates(f)
    ELSE IF CheckUnits(f) # "OK" THEN CheckUnits(f)
    ELSE IF CheckPrice(f) # "OK" THEN CheckPrice(f)
    ELSE CheckDiscount(f)

\* the except clauses of insert_product (440-453) and update_product
\* (542-555); the catch-all answers with the text of the exception
ExceptWrite(h, e) ==
    CASE e = "KeyError" -> Resp(400, "KEY_ERROR")
      [] e = "IntegrityError" ->
            Resp(400, IF h = "insert_product" THEN "INTEGRITY_ERROR"
                      ELSE "INTEGRITY_DATA")
      [] e = "InvalidRequestError" -> Resp(400, "INVALID_REQUEST")
      [] e = "ProgrammingError" -> Resp(500, "ERROR_IN_SQL_SYNTAX")
      [] OTHER -> Resp(500, e)

\* IsRejection never seeing the rejection
IsRejectionMutant(v) == FALSE

\* 400 in image_urls (lines 404, 529)
IsRejection(v) == v.kind = "rejection"

RECURSIVE SlotsFrom(_, _)
SlotsFrom(idx, fs) ==
    IF idx > LastSlot THEN <<>>
    ELSE (IF idx \in fs THEN <<idx>> ELSE <<>>) \o SlotsFrom(idx + 1, fs)

\* for idx in range(1, 6): the attachments present, in slot order
CollectImages(fs) == SlotsFrom(1, fs)

(* ------------------- collaborators outside src/ ----------------------- *)
\* product_service.upload_image(product_code, images): the URLs of the
\* stored files, in order, or the rejection of a disallowed file type
UploadImage(code, images, outcome) ==
    IF outcome = "reject" THEN Rejection
    ELSE UrlList([i \in 1..Len(images) |-> code \o <<"_", Digits[i + 1]>>])

UploadOutcomes(images) ==
    {"ok", "raise"} \cup (IF images = <<>> THEN {} ELSE {"reject"})

UrlsOf(v) == IF v.kind = "urls" THEN Range(v.urls) ELSE {}

\* utils.delete_image_in_s3(images, new_images): the URLs it removes from
\* the store; with new_images given only those are removed
DeleteTargets(images, new_images) ==
    IF new_images = None THEN UrlsOf(images) ELSE UrlsOf(new_images)

\* a store call can fail only when one is made
DeleteOutcomes(targets) == {"ok"} \cup (IF targets = {} THEN {} ELSE {"raise"})

PersistOutcomes ==
    {"ok", "IntegrityError", "InvalidRequestError", "ProgrammingError", "Exception"}

CommitOutcomes == {"ok", "IntegrityError", "Exception"}

(* ------------------------------- state -------------------------------- *)
VARIABLES
    handler,        \* the endpoint handling the current request
    pc,             \* the handler's position
    form,           \* request.form
    files,          \* the slots idx for which request.files has image_<idx>
    total,          \* count_info.p_count of a list request
    limit,          \* filterLimit of a list request
    session,        \* "unbound", "open" or "closed"
    is_success,
    image_urls,     \* insert_product's local
    old_images,     \* update_product's local
    new_images,     \* update_product's local
    product_info,
    response,       \* what the handler returns
    body,           \* the JSON body of a list response
    raised,         \* the exception that left the handler, "" if none
    caught,         \* the exception an except clause of a product write
                    \* handler caught, "" if none
    calls,          \* the calls made on collaborators, in order
    delete_args,    \* the arguments delete_image_in_s3 was called with
    uploaded,       \* URLs put into the store by this request
    deleted,        \* URLs removed from the store by this request
    persisted,      \* the record handed to the persistence call
    committed       \* session.commit() returned

vars ==
    <<handler, pc, form, files, total, limit, session, is_success, image_urls,
      old_images, new_images, product_info, response, body, raised, caught,
      calls, delete_args, uploaded, deleted, persisted, committed>>

request == <<handler, form, files, total, limit>>

locals == <<is_success, image_urls, old_images, new_images, product_info>>

store == <<uploaded, deleted, delete_args>>

NoBody == [page_number |-> 0 - 1, total_order_number |-> 0 - 1]

NoArgs == <<Unbound, Unbound>>

Init ==
    /\ handler = "none"
    /\ pc = "idle"
    /\ form = EmptyForm
    /\ files = {}
    /\ total = 0
    /\ limit = 1
    /\ session = "unbound"
    /\ is_success = FALSE
    /\ image_urls = Unbound
    /\ old_images = Unbound
    /\ new_images = Unbound
    /\ product_info = NoInfo
    /\ response = NoResponse
    /\ body = NoBody
    /\ raised = ""
    /\ caught = ""
    /\ calls = <<>>
    /\ delete_args = NoArgs
    /\ uploaded = {}
    /\ deleted = {}
    /\ persisted = NoInfo
    /\ committed = FALSE

\* a new request starts a fresh invocation of its handler
Fresh(h, f, fs, t, l) ==
    /\ handler' = h
    /\ form' = f
    /\ files' = fs
    /\ total' = t
    /\ limit' = l
    /\ UNCHANGED <<session, locals, response, body, raised, caught, calls,
                   store, persisted, committed>>

Fresh_Reset ==
    /\ handler' = "none"
    /\ form' = EmptyForm
    /\ files' = {}
    /\ total' = 0
    /\ limit' = 1
    /\ session' = "unbound"
    /\ is_success' = FALSE
    /\ image_urls' = Unbound
    /\ old_images' = Unbound
    /\ new_images' = Unbound
    /\ product_info' = NoInfo
    /\ response' = NoResponse
    /\ body' = NoBody
    /\ raised' = ""
    /\ caught' = ""
    /\ calls' = <<>>
    /\ delete_args' = NoArgs
    /\ uploaded' = {}
    /\ deleted' = {}
    /\ persisted' = NoInfo
    /\ committed' = FALSE

Log(name) == calls' = Append(calls, name)

Called(name) == \E i \in 1..Len(calls) : calls[i] = name

CountCalls(name) == Cardinality({i \in 1..Len(calls) : calls[i] = name})

\* an exception leaves the handler: the framework answers 500
Escapes(e) ==
    /\ raised' = e
    /\ response' = Resp(500, "INTERNAL_SERVER_ERROR")
    /\ pc' = "done"

\* the response is sent and the invocation's frame is gone
Return ==
    /\ pc = "done"
    /\ pc' = "idle"
    /\ Fresh_Reset

\* an except clause of a product write handler takes the exception e
Catch(e) ==
    /\ response' = ExceptWrite(handler, e)
    /\ caught' = e

(* --------------------- insert_product (337-459) ----------------------- *)
ReceiveInsert ==
    /\ pc = "idle"
    /\ \E f \in InsertForms, fs \in SUBSET (1..MaxFiles) :
        /\ Fresh("insert_product", f, fs, 0, 1)
        /\ pc' = "ins_session"

\* lines 363-365: Session() is called outside the try
InsSession ==
    /\ pc = "ins_session"
    /\ \E ok \in BOOLEAN :
        IF ok
        THEN /\ session' = "open"
             /\ image_urls' = EmptyStr
             /\ Log("Session")
             /\ pc' = "ins_validate"
             /\ UNCHANGED <<response, raised>>
        ELSE /\ Escapes("OperationalError")
             /\ UNCHANGED <<session, image_urls, calls>>
    /\ UNCHANGED <<request, caught, is_success, old_images, new_images, product_info,
                   body, store, persisted, committed>>

\* lines 367-386
InsValidate ==
    /\ pc = "ins_validate"
    /\ LET v == Validate(form)
       IN  IF v = "OK"
           THEN pc' = "ins_upload" /\ UNCHANGED <<response, caught>>
           ELSE /\ pc' = "ins_finally"
                /\ IF v \in {"KeyError", "ValueError"}
                   THEN Catch(v)
                   ELSE response' = Resp(400, v) /\ UNCHANGED caught
    /\ UNCHANGED <<request, session, locals, body, raised, calls, store,
                   persisted, committed>>

\* the product code uuid.uuid4() gives this request (line 389)
NewProductCode == <<"u">>

\* lines 389-405
InsUpload ==
    /\ pc = "ins_upload"
    /\ Log("upload_image")
    /\ \E o \in UploadOutcomes(CollectImages(files)) :
        IF o = "raise"
        THEN /\ Catch("Exception")
             /\ pc' = "ins_finally"
             /\ UNCHANGED <<image_urls, uploaded>>
        ELSE LET r == UploadImage(NewProductCode, CollectImages(files), o)
             IN  /\ image_urls' = r
                 /\ uploaded' = UrlsOf(r)
                 /\ IF IsRejection(r)
                    THEN /\ response' = Resp(400, "UPLOAD_REJECTED")
                         /\ UNCHANGED caught
                         /\ pc' = "ins_finally"
                    ELSE /\ pc' = "ins_assemble"
                         /\ UNCHANGED <<response, caught>>
    /\ UNCHANGED <<request, session, is_success, old_images, new_images,
                   product_info, body, raised, deleted, delete_args, persisted,
                   committed>>

\* lines 408-430: every field of the form is read into product_info
InsAssemble ==
    /\ pc = "ins_assemble"
    /\ IF InsertFields \subseteq DOMAIN form
       THEN /\ product_info' = [fields |-> form, images |-> image_urls,
                                new_images |-> Unbound]
            /\ pc' = "ins_persist"
            /\ UNCHANGED <<response, caught>>
       ELSE /\ Catch("KeyError")
            /\ pc' = "ins_finally"
            /\ UNCHANGED product_info
    /\ UNCHANGED <<request, session, is_success, image_urls, old_images,
                   new_images, body, raised, calls, store, persisted, committed>>

\* line 432
InsPersist ==
    /\ pc = "ins_persist"
    /\ Log("insert_product")
    /\ persisted' = product_info
    /\ \E o \in PersistOutcomes :
        IF o = "ok"
        THEN pc' = "ins_commit" /\ UNCHANGED <<response, caught>>
        ELSE Catch(o) /\ pc' = "ins_finally"
    /\ UNCHANGED <<request, session, locals, body, raised, store, committed>>

\* lines 434-438
InsCommit ==
    /\ pc = "ins_commit"
    /\ Log("commit")
    /\ \E o \in CommitOutcomes :
        IF o = "ok"
        THEN /\ committed' = TRUE
             /\ is_success' = TRUE
             /\ response' = Resp(200, "SUCCESS")
             /\ UNCHANGED caught
        ELSE /\ Catch(o)
             /\ UNCHANGED <<committed, is_success>>
    /\ pc' = "ins_finally"
    /\ UNCHANGED <<request, session, image_urls, old_images, new_images,
                   product_info, body, raised, store, persisted>>

\* InsDeleteArgs naming the initial '' instead of the uploaded URLs
InsDeleteArgsMutant == <<EmptyStr, None>>

\* the arguments of delete_image_in_s3 at line 458
InsDeleteArgs == <<image_urls, None>>

\* FinallyWrite cleaning up whatever is_success says
FinallyWriteMutant(args) ==
    IF args[1] = Unbound \/ args[2] = Unbound
    THEN /\ calls' = Append(calls, "rollback")
         /\ Escapes("UnboundLocalError")
         /\ UNCHANGED <<session, store>>
    ELSE /\ delete_args' = args
         /\ deleted' = DeleteTargets(args[1], args[2])
         /\ calls' = calls \o <<"rollback", "delete_image_in_s3", "close">>
         /\ session' = "closed"
         /\ pc' = "done"
         /\ UNCHANGED <<response, raised, uploaded>>

\* the finally block of the two write handlers (455-459, 557-561) with the
\* arguments its delete_image_in_s3 call names: reading an unbound local
\* raises UnboundLocalError, and an exception raised here replaces the
\* response and skips session.close()
FinallyWrite(args) ==
    IF is_success
    THEN /\ calls' = Append(calls, "close")
         /\ session' = "closed"
         /\ pc' = "done"
         /\ UNCHANGED <<response, raised, store>>
    ELSE IF args[1] = Unbound \/ args[2] = Unbound
    THEN /\ calls' = Append(calls, "rollback")
         /\ Escapes("UnboundLocalError")
         /\ UNCHANGED <<session, store>>
    ELSE \E o \in DeleteOutcomes(DeleteTargets(args[1], args[2])) :
            /\ delete_args' = args
            /\ IF o = "ok"
               THEN /\ deleted' = DeleteTargets(args[1], args[2])
                    /\ calls' = calls \o <<"rollback", "delete_image_in_s3", "close">>
                    /\ session' = "closed"
                    /\ pc' = "done"
                    /\ UNCHANGED <<response, raised>>
               ELSE /\ deleted' \in
                          (SUBSET DeleteTargets(args[1], args[2]))
                              \ {DeleteTargets(args[1], args[2])}
                    /\ calls' = calls \o <<"rollback", "delete_image_in_s3">>
                    /\ Escapes("ClientError")
                    /\ UNCHANGED session
            /\ UNCHANGED uploaded

\* lines 455-459
InsFinally ==
    /\ pc = "ins_finally"
    /\ FinallyWrite(InsDeleteArgs)
    /\ UNCHANGED <<request, caught, locals, body, persisted, committed>>

(* --------------------- update_product (463-561) ----------------------- *)
ReceiveUpdate ==
    /\ pc = "idle"
    /\ \E f \in UpdateForms, fs \in SUBSET (1..MaxFiles) :
        /\ Fresh("update_product", f, fs, 0, 1)
        /\ pc' = "upd_session"

\* lines 486-487: Session() is called outside the try
UpdSession ==
    /\ pc = "upd_session"
    /\ \E ok \in BOOLEAN :
        IF ok
        THEN /\ session' = "open"
             /\ Log("Session")
             /\ pc' = "upd_assemble"
             /\ UNCHANGED <<response, raised>>
        ELSE /\ Escapes("OperationalError")
             /\ UNCHANGED <<session, calls>>
    /\ UNCHANGED <<request, caught, locals, body, store, persisted, committed>>

\* line 490
OldImages(f) == UrlList(Split(f["images"]))

\* lines 490-514: old_images is assigned first, then every field of the
\* form is read into product_info; no field is checked
UpdAssemble ==
    /\ pc = "upd_assemble"
    /\ old_images' = IF Has(form, "images") THEN OldImages(form) ELSE old_images
    /\ IF UpdateFields \subseteq DOMAIN form
       THEN /\ product_info' = [fields |-> form, images |-> old_images',
                                new_images |-> Unbound]
            /\ pc' = "upd_upload"
            /\ UNCHANGED <<response, caught>>
       ELSE /\ Catch("KeyError")
            /\ pc' = "upd_finally"
            /\ UNCHANGED product_info
    /\ UNCHANGED <<request, session, is_success, image_urls, new_images,
                   body, raised, calls, store, persisted, committed>>

\* lines 517-530
UpdUpload ==
    /\ pc = "upd_upload"
    /\ Log("upload_image")
    /\ \E o \in UploadOutcomes(CollectImages(files)) :
        IF o = "raise"
        THEN /\ Catch("Exception")
             /\ pc' = "upd_finally"
             /\ UNCHANGED <<new_images, uploaded>>
        ELSE LET r == UploadImage(product_info.fields["product_code"],
                                  CollectImages(files), o)
             IN  /\ new_images' = r
                 /\ uploaded' = UrlsOf(r)
                 /\ IF IsRejection(r)
                    THEN /\ response' = Resp(400, "UPLOAD_REJECTED")
                         /\ UNCHANGED caught
                         /\ pc' = "upd_finally"
                    ELSE /\ pc' = "upd_persist"
                         /\ UNCHANGED <<response, caught>>
    /\ UNCHANGED <<request, session, is_success, image_urls, old_images,
                   product_info, body, raised, deleted, delete_args, persisted,
                   committed>>

\* lines 532-534
UpdPersist ==
    /\ pc = "upd_persist"
    /\ Log("update_product")
    /\ product_info' = [product_info EXCEPT !.new_images = new_images]
    /\ persisted' = product_info'
    /\ \E o \in PersistOutcomes :
        IF o = "ok"
        THEN pc' = "upd_commit" /\ UNCHANGED <<response, caught>>
        ELSE Catch(o) /\ pc' = "upd_finally"
    /\ UNCHANGED <<request, session, is_success, image_urls, old_images,
                   new_images, body, raised, store, committed>>

\* lines 536-540
UpdCommit ==
    /\ pc = "upd_commit"
    /\ Log("commit")
    /\ \E o \in CommitOutcomes :
        IF o = "ok"
        THEN /\ committed' = TRUE
             /\ is_success' = TRUE
             /\ response' = Resp(200, "SUCCESS")
             /\ UNCHANGED caught
        ELSE /\ Catch(o)
             /\ UNCHANGED <<committed, is_success>>
    /\ pc' = "upd_finally"
    /\ UNCHANGED <<request, session, image_urls, old_images, new_images,
                   product_info, body, raised, store, persisted>>

\* UpdDeleteArgs handing over the stored images alone
UpdDeleteArgsMutant == <<old_images, None>>

\* the arguments of delete_image_in_s3 at line 560
UpdDeleteArgs == <<old_images, new_images>>

\* lines 557-561
UpdFinally ==
    /\ pc = "upd_finally"
    /\ FinallyWrite(UpdDeleteArgs)
    /\ UNCHANGED <<request, caught, locals, body, persisted, committed>>

(* -------------------------- read handlers ----------------------------- *)
\* finally: session.close() (lines 123-124, 162-163, 198-199; qna 91-93,
\* 135-136, 187-188, 237-238); the name session is unbound when Session()
\* raised inside the try
CloseFinally ==
    /\ IF session = "unbound"
       THEN /\ Escapes("UnboundLocalError")
            /\ UNCHANGED <<session, calls>>
       ELSE /\ session' = "closed"
            /\ Log("close")
            /\ pc' = "done"
            /\ UNCHANGED <<response, raised>>
    /\ UNCHANGED <<request, caught, locals, body, store, persisted, committed>>

\* session = Session() before the try: a failure leaves the handler
SessionBeforeTry(next) ==
    /\ \E ok \in BOOLEAN :
        IF ok
        THEN /\ session' = "open"
             /\ Log("Session")
             /\ pc' = next
             /\ UNCHANGED <<response, raised>>
        ELSE /\ Escapes("OperationalError")
             /\ UNCHANGED <<session, calls>>
    /\ UNCHANGED <<request, caught, locals, body, store, persisted, committed>>

\* session = Session() as the first statement of the try: a failure is
\* caught by except Exception and the finally block runs
SessionInTry(next, fin) ==
    /\ \E ok \in BOOLEAN :
        IF ok
        THEN /\ session' = "open"
             /\ Log("Session")
             /\ pc' = next
             /\ UNCHANGED response
        ELSE /\ response' = Resp(500, "OperationalError")
             /\ pc' = fin
             /\ UNCHANGED <<session, calls>>
    /\ UNCHANGED <<request, caught, locals, body, raised, store, persisted, committed>>

\* Python 3 round(t / l) for t >= 0, l >= 1: to the nearest integer, a tie
\* to the even one
PyRound(t, l) ==
    LET q == t \div l
        r == t % l
    IN  IF 2 * r < l THEN q
        ELSE IF 2 * r > l THEN q + 1
        ELSE IF q % 2 = 0 THEN q ELSE q + 1

\* lines 108-112
ListBody(t, l) == [page_number |-> t, total_order_number |-> PyRound(t, l)]

ReceiveProducts ==
    /\ pc = "idle"
    /\ \E t \in 0..MaxTotal, l \in 0..MaxLimit :
        /\ Fresh("products", EmptyForm, {}, t, l)
        /\ pc' = "prod_session"

\* lines 65-66
ProdSession ==
    /\ pc = "prod_session"
    /\ SessionInTry("prod_query", "prod_finally")

\* lines 69-121
ProdQuery ==
    /\ pc = "prod_query"
    /\ \E o \in {"ok", "ProgrammingError", "Exception"} :
        IF o = "ok"
        THEN /\ calls' = calls \o <<"get_products", "get_product_count">>
             /\ IF limit = 0
                THEN /\ response' = Resp(500, "ZeroDivisionError")
                     /\ UNCHANGED body
                ELSE /\ body' = ListBody(total, limit)
                     /\ response' = Resp(200, "OK")
        ELSE /\ Log("get_products")
             /\ response' = IF o = "ProgrammingError"
                            THEN Resp(500, "ERROR_IN_SQL_SYNTAX")
                            ELSE Resp(500, o)
             /\ UNCHANGED body
    /\ pc' = "prod_finally"
    /\ UNCHANGED <<request, caught, session, locals, raised, store, persisted, committed>>

\* lines 123-124
ProdFinally ==
    /\ pc = "prod_finally"
    /\ CloseFinally

\* the body of a read handler: one service call and the except clauses
ReadQuery(name, outcomes, fin) ==
    /\ Log(name)
    /\ \E o \in outcomes :
        response' =
            CASE o = "ok" -> Resp(200, "OK")
              [] o = "ProgrammingError" -> Resp(500, "ERROR_IN_SQL_SYNTAX")
              [] o = "AttributeError" -> Resp(400, "THERE_IS_NO_PRODUCT_DATA")
              [] OTHER -> Resp(500, o)
    /\ pc' = fin
    /\ UNCHANGED <<request, caught, session, locals, body, raised, store, persisted,
                   committed>>

ReceiveProduct ==
    /\ pc = "idle"
    /\ Fresh("product", EmptyForm, {}, 0, 1)
    /\ pc' = "one_session"

\* line 146
OneSession ==
    /\ pc = "one_session"
    /\ SessionBeforeTry("one_query")

\* lines 147-160
OneQuery ==
    /\ pc = "one_query"
    /\ ReadQuery("get_product",
                 {"ok", "ProgrammingError", "AttributeError", "Exception"},
                 "one_finally")

\* lines 162-163
OneFinally ==
    /\ pc = "one_finally"
    /\ CloseFinally

ReceiveHistory ==
    /\ pc = "idle"
    /\ Fresh("product_history", EmptyForm, {}, 0, 1)
    /\ pc' = "hist_session"

\* line 185
HistSession ==
    /\ pc = "hist_session"
    /\ SessionBeforeTry("hist_query")

\* lines 186-196
HistQuery ==
    /\ pc = "hist_query"
    /\ ReadQuery("get_product_history", {"ok", "ProgrammingError", "Exception"},
                 "hist_finally")

\* lines 198-199
HistFinally ==
    /\ pc = "hist_finally"
    /\ CloseFinally

(* ------------------------- qna_controller ----------------------------- *)
ReceiveQnaList ==
    /\ pc = "idle"
    /\ Fresh("get_qna_list", EmptyForm, {}, 0, 1)
    /\ pc' = "ql_session"

\* lines 75-77
QnaListSession ==
    /\ pc = "ql_session"
    /\ SessionInTry("ql_query", "ql_finally")

\* lines 78-89: a Session object is true, so the else branch is not taken
QnaListQuery ==
    /\ pc = "ql_query"
    /\ ReadQuery("get_qna_list", {"ok", "Exception"}, "ql_finally")

\* lines 91-93
QnaListFinally ==
    /\ pc = "ql_finally"
    /\ CloseFinally

ReceiveQnaInfo ==
    /\ pc = "idle"
    /\ Fresh("qna_answer_info", EmptyForm, {}, 0, 1)
    /\ pc' = "qi_session"

\* line 120
QnaInfoSession ==
    /\ pc = "qi_session"
    /\ SessionBeforeTry("qi_query")

\* lines 122-133
QnaInfoQuery ==
    /\ pc = "qi_query"
    /\ ReadQuery("qna_answer_info", {"ok", "Exception"}, "qi_finally")

\* lines 135-136
QnaInfoFinally ==
    /\ pc = "qi_finally"
    /\ CloseFinally

\* the service call of a Q&A write handler (lines 173, 223); except
\* Exception rolls back and answers 500 (182-185, 232-235)
QnaService(name, next, fin) ==
    /\ \E o \in {"ok", "Exception"} :
        IF o = "ok"
        THEN /\ Log(name)
             /\ pc' = next
             /\ UNCHANGED response
        ELSE /\ calls' = calls \o <<name, "rollback">>
             /\ response' = Resp(500, o)
             /\ pc' = fin
    /\ UNCHANGED <<request, caught, session, locals, body, raised, store, persisted,
                   committed>>

\* QnaCommit answering SUCCESS although commit raised and was rolled back
QnaCommitMutant(fin) ==
    /\ \E o \in {"ok", "Exception"} :
        IF o = "ok"
        THEN /\ Log("commit")
             /\ committed' = TRUE
        ELSE /\ calls' = calls \o <<"commit", "rollback">>
             /\ UNCHANGED committed
    /\ response' = Resp(200, "SUCCESS")
    /\ pc' = fin
    /\ UNCHANGED <<request, caught, session, locals, body, raised, store, persisted>>

\* session.commit() and the SUCCESS return (lines 175-177, 225-227)
QnaCommit(fin) ==
    /\ \E o \in {"ok", "Exception"} :
        IF o = "ok"
        THEN /\ Log("commit")
             /\ committed' = TRUE
             /\ response' = Resp(200, "SUCCESS")
        ELSE /\ calls' = calls \o <<"commit", "rollback">>
             /\ response' = Resp(500, o)
             /\ UNCHANGED committed
    /\ pc' = fin
    /\ UNCHANGED <<request, caught, session, locals, body, raised, store, persisted>>

ReceiveInsertAnswer ==
    /\ pc = "idle"
    /\ Fresh("insert_answer", EmptyForm, {}, 0, 1)
    /\ pc' = "ia_session"

\* line 168
InsAnswerSession ==
    /\ pc = "ia_session"
    /\ SessionBeforeTry("ia_service")

\* lines 170-173
InsAnswerService ==
    /\ pc = "ia_service"
    /\ QnaService("insert_answer", "ia_commit", "ia_finally")

\* lines 175-177
InsAnswerCommit ==
    /\ pc = "ia_commit"
    /\ QnaCommit("ia_finally")

\* lines 187-188
InsAnswerFinally ==
    /\ pc = "ia_finally"
    /\ CloseFinally

ReceiveDeleteQuestion ==
    /\ pc = "idle"
    /\ Fresh("delete_question", EmptyForm, {}, 0, 1)
    /\ pc' = "dq_session"

\* line 218
DelQuestionSession ==
    /\ pc = "dq_session"
    /\ SessionBeforeTry("dq_service")

\* lines 220-223
DelQuestionService ==
    /\ pc = "dq_service"
    /\ QnaService("delete_question", "dq_commit", "dq_finally")

\* lines 225-227
DelQuestionCommit ==
    /\ pc = "dq_commit"
    /\ QnaCommit("dq_finally")

\* lines 237-238
DelQuestionFinally ==
    /\ pc = "dq_finally"
    /\ CloseFinally

Next ==
    \/ ReceiveInsert
    \/ InsSession
    \/ InsValidate
    \/ InsUpload
    \/ InsAssemble
    \/ InsPersist
    \/ InsCommit
    \/ InsFinally
    \/ ReceiveUpdate
    \/ UpdSession
    \/ UpdAssemble
    \/ UpdUpload
    \/ UpdPersist
    \/ UpdCommit
    \/ UpdFinally
    \/ ReceiveProducts
    \/ ProdSession
    \/ ProdQuery
    \/ ProdFinally
    \/ ReceiveProduct
    \/ OneSession
    \/ OneQuery
    \/ OneFinally
    \/ ReceiveHistory
    \/ HistSession
    \/ HistQuery
    \/ HistFinally
    \/ ReceiveQnaList
    \/ QnaListSession
    \/ QnaListQuery
    \/ QnaListFinally
    \/ ReceiveQnaInfo
    \/ QnaInfoSession
    \/ QnaInfoQuery
    \/ QnaInfoFinally
    \/ ReceiveInsertAnswer
    \/ InsAnswerSession
    \/ InsAnswerService
    \/ InsAnswerCommit
    \/ InsAnswerFinally
    \/ ReceiveDeleteQuestion
    \/ DelQuestionSession
    \/ DelQuestionService
    \/ DelQuestionCommit
    \/ DelQuestionFinally
    \/ Return

Spec == Init /\ [][Next]_vars

(* ------------------ the rules as the specification states them -------- *)
IntField(f, k) == Has(f, k) /\ IsIntStr(f[k])

\* every validated field is present and every numeric one is an integer
WellFormed(f) ==
    /\ ValidatedFields \subseteq DOMAIN f
    /\ \A k \in {"min_unit", "max_unit", "price", "discount_rate"} : IsIntStr(f[k])

BreaksName(f) == Has(f, "name") /\ HasQuote(f["name"])

BreaksDates(f) ==
    /\ Has(f, "discount_start_date")
    /\ Has(f, "discount_end_date")
    /\ StrGreater(f["discount_start_date"], f["discount_end_date"])

BreaksUnits(f) ==
    \E k \in {"min_unit", "max_unit"} : IntField(f, k) /\ IntOf(f[k]) > 20

BreaksPrice(f) == IntField(f, "price") /\ IntOf(f["price"]) < 10

BreaksDiscount(f) ==
    /\ IntField(f, "discount_rate")
    /\ ~(0 <= IntOf(f["discount_rate"]) /\ IntOf(f["discount_rate"]) < 99)

BreaksAnyRule(f) ==
    BreaksName(f) \/ BreaksDates(f) \/ BreaksUnits(f) \/ BreaksPrice(f)
        \/ BreaksDiscount(f)

RejectionCodes ==
    {"NAME_CANNOT_CONTAIN_QUOTATION_MARK",
     "START_DATE_CANNOT_BE_EARLIER_THAN_END_DATE", "CANNOT_SET_MORE_THAN_20",
     "CANNOT_SET_LESS_THAN_10", "DISCOUNT_RANGE_CAN_BE_SET_FROM_0_TO_99"}

ValidationRejected == response.status = 400 /\ response.message \in RejectionCodes

\* rollback comes before close in the log
RollbackBeforeClose ==
    \E i, j \in 1..Len(calls) : i < j /\ calls[i] = "rollback" /\ calls[j] = "close"

(* ------------------------------ claims -------------------------------- *)
\* C1: in insert_product a request whose fields break a business rule never
\* reaches product_service.upload_image or product_service.insert_product;
\* a request answered with a validation rejection has made neither call;
\* and once the session is acquired a well-formed request that breaks a
\* rule ends in a 400 with a rejection code.
C1_CreateRejectsBeforeSideEffects ==
    handler = "insert_product" =>
        /\ BreaksAnyRule(form) =>
              ~Called("upload_image") /\ ~Called("insert_product")
        /\ ValidationRejected =>
              ~Called("upload_image") /\ ~Called("insert_product")
        /\ (pc = "done" /\ Called("Session") /\ WellFormed(form)
                /\ BreaksAnyRule(form)) => ValidationRejected

\* a create with two attachments is rejected for its price and has only
\* acquired, rolled back and closed the session
C1_Witness ==
    /\ handler = "insert_product"
    /\ pc = "done"
    /\ files = {1, 2}
    /\ response = Resp(400, "CANNOT_SET_LESS_THAN_10")
    /\ calls = <<"Session", "rollback", "delete_image_in_s3", "close">>
    /\ uploaded = {}

\* C2: update_product rejects a complete request that breaks a rule of the
\* validation layer with a 400 rejection code, before any upload_image or
\* product_service.update_product call.
C2_UpdateSameValidation ==
    (handler = "update_product" /\ UpdateFields \subseteq DOMAIN form
        /\ WellFormed(form) /\ BreaksAnyRule(form)) =>
        /\ ~Called("upload_image")
        /\ ~Called("update_product")
        /\ (pc = "done" /\ Called("Session")) => ValidationRejected

\* C3: in insert_product, when the upload returned N URLs and the request
\* then fails, the transaction is rolled back, not committed, and
\* delete_image_in_s3 is called once, with exactly those N URLs.
C3_CreateFailureCompensates ==
    (handler = "insert_product" /\ pc = "done" /\ image_urls.kind = "urls"
        /\ ~is_success) =>
        /\ Called("rollback")
        /\ ~committed
        /\ CountCalls("delete_image_in_s3") = 1
        /\ delete_args[1].kind = "urls"
        /\ delete_args[2] = None
        /\ Range(delete_args[1].urls) = uploaded
        /\ Len(delete_args[1].urls) = Cardinality(files)

\* a create stored two images, persistence raised IntegrityError, and the
\* two URLs were handed to the compensation
C3_Witness ==
    /\ handler = "insert_product"
    /\ pc = "done"
    /\ Cardinality(uploaded) = 2
    /\ response = Resp(400, "INTEGRITY_ERROR")
    /\ Called("insert_product")
    /\ Range(delete_args[1].urls) = uploaded
    /\ deleted = uploaded

\* the URLs the 'images' field of the form lists
StoredImages == IF Has(form, "images") THEN Range(Split(form["images"])) ELSE {}

WriteHandlers == {"insert_product", "update_product", "insert_answer", "delete_question"}

\* C5: every invocation that acquired a session calls session.close()
\* exactly once by the time it ends, and a write handler whose request
\* failed has rolled back before it closes.
C5_SessionAlwaysReleased ==
    (pc = "done" /\ Called("Session")) =>
        /\ CountCalls("close") = 1
        /\ (handler \in WriteHandlers /\ response.status # 200) =>
              RollbackBeforeClose

C7_PageNumberIsRoundedQuotient ==
    (handler = "products" /\ pc = "done" /\ response.status = 200 /\ limit >= 1) =>
        /\ body.page_number = PyRound(total, limit)
        /\ body.total_order_number = total

\* C8: a create or update answered with KEY_ERROR has uploaded nothing and
\* made no persistence call, and a request that lacks a field and breaks
\* no rule is answered with 400 KEY_ERROR.
C8_MissingFieldNoSideEffects ==
    handler \in {"insert_product", "update_product"} =>
        /\ response.message = "KEY_ERROR" =>
              /\ ~Called("upload_image")
              /\ uploaded = {}
              /\ ~Called("insert_product")
              /\ ~Called("update_product")
        /\ (pc = "done" /\ Called("Session") /\ ~BreaksAnyRule(form)
                /\ (\A k \in {"min_unit", "max_unit", "price", "discount_rate"} :
                        Has(form, k) => IsIntStr(form[k]))
                /\ (IF handler = "insert_product" THEN InsertFields
                    ELSE UpdateFields) \ DOMAIN form # {}) =>
              response = Resp(400, "KEY_ERROR")

\* the code of the first rule, in the order name, dates, units, price,
\* discount, that a well-formed form breaks
FirstBrokenRule(f) ==
    IF BreaksName(f) THEN "NAME_CANNOT_CONTAIN_QUOTATION_MARK"
    ELSE IF BreaksDates(f) THEN "START_DATE_CANNOT_BE_EARLIER_THAN_END_DATE"
    ELSE IF BreaksUnits(f) THEN "CANNOT_SET_MORE_THAN_20"
    ELSE IF BreaksPrice(f) THEN "CANNOT_SET_LESS_THAN_10"
    ELSE IF BreaksDiscount(f) THEN "DISCOUNT_RANGE_CAN_BE_SET_FROM_0_TO_99"
    ELSE "NONE"

\* C9: once insert_product has validated a form whose validated fields are
\* all present and whose numeric fields are integers, the response is the
\* 400 rejection of the first rule the form breaks in the order name,
\* dates, units, price, discount, whatever later rules it also breaks; a
\* form that breaks none is not rejected by validation and goes on to the
\* upload.
C9_ValidationOrder ==
    (handler = "insert_product" /\ WellFormed(form)
        /\ pc \notin {"ins_session", "ins_validate"} /\ Called("Session")) =>
        IF FirstBrokenRule(form) # "NONE"
        THEN response = Resp(400, FirstBrokenRule(form))
        ELSE /\ ~ValidationRejected
             /\ pc = "ins_upload" \/ Called("upload_image")

\* a form breaking the unit, price and discount rules at once is rejected
\* for its units
C9_Witness ==
    /\ handler = "insert_product"
    /\ pc = "done"
    /\ WellFormed(form)
    /\ form["name"] = <<"W">>
    /\ form["min_unit"] = <<"2", "1">>
    /\ form["price"] = <<"9">>
    /\ form["discount_rate"] = <<"9", "9">>
    /\ response = Resp(400, "CANNOT_SET_MORE_THAN_20")

\* the images of the record handed to persistence
RecordImages(r) ==
    r.images.urls \o (IF r.new_images.kind = "urls" THEN r.new_images.urls ELSE <<>>)

\* the Product invariant of the data model
ProductInvariant(r) ==
    /\ WellFormed(r.fields)
    /\ ~BreaksAnyRule(r.fields)
    /\ 1 <= IntOf(r.fields["min_unit"])
    /\ 1 <= IntOf(r.fields["max_unit"])
    /\ Len(RecordImages(r)) \in 1..5

\* C10: every record insert_product or update_product hands to persistence
\* and commits satisfies the Product invariant.
C10_CommittedRecordIsValid ==
    (handler \in {"insert_product", "update_product"} /\ committed) =>
        ProductInvariant(persisted)

\* C11: in insert_product and update_product is_success is set and 200
\* SUCCESS is the response only once session.commit() has returned, and a
\* request marked successful makes no rollback and no delete_image_in_s3
\* call to its end: nothing is deleted, the stored images of an update
\* included.
C11_SuccessOnlyAfterCommit ==
    (handler \in {"insert_product", "update_product"}
        /\ (is_success \/ response = Resp(200, "SUCCESS"))) =>
        /\ is_success
        /\ response = Resp(200, "SUCCESS")
        /\ committed
        /\ Called("commit")
        /\ ~Called("rollback")
        /\ ~Called("delete_image_in_s3")
        /\ delete_args = NoArgs
        /\ deleted = {}
        /\ raised = ""

\* an update of a product with two stored images, with one new upload, has
\* ended in SUCCESS with its session closed
C11_Witness ==
    /\ handler = "update_product"
    /\ pc = "done"
    /\ is_success
    /\ StoredImages = {<<"a">>, <<"b">>}
    /\ Cardinality(uploaded) = 1
    /\ calls = <<"Session", "upload_image", "update_product", "commit", "close">>

\* C12: a failed insert_product or update_product whose cleanup was entered
\* ends with the response its except clause chose, whatever becomes of the
\* delete_image_in_s3 call: no exception leaves the handler, and
\* session.close() is its last call.
C12_CleanupFailureNotSurfaced ==
    (handler \in {"insert_product", "update_product"} /\ pc = "done"
        /\ Called("rollback")) =>
        /\ raised = ""
        /\ response # Resp(500, "INTERNAL_SERVER_ERROR")
        /\ session = "closed"
        /\ calls[Len(calls)] = "close"

QnaWriteHandlers == {"insert_answer", "delete_question"}

\* C14: an insert_answer or delete_question invocation that acquired its
\* session ends in one of two ways: the service call and session.commit()
\* completed, SUCCESS is the response and nothing was rolled back; or the
\* service call or the commit raised, the session was rolled back once and
\* the response is a 500.  SUCCESS is never the response of a rolled back
\* request, and session.close() is the last call either way.
C14_QnaWriteOutcome ==
    (handler \in QnaWriteHandlers /\ Called("Session")) =>
        /\ response = Resp(200, "SUCCESS") => committed /\ ~Called("rollback")
        /\ pc = "done" =>
              /\ raised = ""
              /\ session = "closed"
              /\ CountCalls("close") = 1
              /\ calls[Len(calls)] = "close"
              /\ \/ /\ response = Resp(200, "SUCCESS")
                    /\ committed
                    /\ calls = <<"Session", handler, "commit", "close">>
                 \/ /\ response.status = 500
                    /\ ~committed
                    /\ CountCalls("rollback") = 1
                    /\ calls[Len(calls) - 1] = "rollback"

\* delete_question's commit raised: rolled back, answered 500, closed
C14_Witness ==
    /\ handler = "delete_question"
    /\ pc = "done"
    /\ response.status = 500
    /\ calls = <<"Session", "delete_question", "commit", "rollback", "close">>

ProductWriteHandlers == {"insert_product", "update_product"}

\* the exceptions the except clauses name, besides the catch-all
ClassifiedErrors ==
    {"KeyError", "IntegrityError", "InvalidRequestError", "ProgrammingError"}

\* C13: an exception caught by an except clause of insert_product or
\* update_product never goes with a commit, and by the end of the request
\* the session was rolled back and the response is the one the
\* classification gives: status 400 for IntegrityError, status 500 for
\* ProgrammingError, and status 500 with the text of the exception for
\* one that no except clause names.
C13_FailuresClassifiedAndRolledBack ==
    (handler \in ProductWriteHandlers /\ caught # "") =>
        /\ ~committed
        /\ ~is_success
        /\ pc = "done" =>
              /\ Called("rollback")
              /\ caught = "IntegrityError" => response.status = 400
              /\ caught = "ProgrammingError" => response.status = 500
              /\ caught \notin ClassifiedErrors => response = Resp(500, caught)

====
